---- MODULE Spec2Model ----
(***************************************************************************)
(* Model of the translation core of the literature reading assistant:      *)
(* the three translator variants of translators.py, the TranslateWorker    *)
(* thread that runs one batch, and the main-thread slots of main.py that   *)
(* receive its signals.                                                    *)
(*                                                                         *)
(* A Python str is a sequence of one-character strings.  A list is a       *)
(* sequence.  A JSON object received from a vendor is a record that says,  *)
(* for every key the code looks at, whether the key is present and what    *)
(* its value is.                                                           *)
(***************************************************************************)
EXTENDS Integers, Sequences, FiniteSets, TLC

VARIABLES
    translator,             \* TranslateWorker.translator (the constructed translator object)
    task,                   \* TranslateWorker.task: [paragraphs, target_lang]
    pc,                     \* position of the worker thread inside run()
    results,                \* the local list `results` of translate_many
    inflight,               \* the request the worker is blocked on, <<>> when none
    net,                    \* every network call made so far, with its reply
    cb_calls,               \* every progress_cb(i, total) call made by translate_many
    queue,                  \* signals emitted by the worker, queued to the main thread
    log,                    \* slots invoked in the main thread, in order
    progress_bar,           \* MainWindow.progress_bar value
    translated_paragraphs,  \* MainWindow.translated_paragraphs
    controls_enabled,       \* translate_btn / refresh_btn / open_btn enabled
    error_boxes,            \* messages shown by on_translate_failed
    applied,                \* the last call of a function taken on its own: name, arguments, value
    window,                 \* the MainWindow object: its attributes and the state of its widgets
    threads,                \* every TranslateWorker instance constructed by the window, in order
    events,                 \* signals of all workers queued to the main thread
    settings,               \* the settings dialog: open or closed, its form, how it ended
    selection               \* the two paragraph lists: row counts, current rows, the guard flag,
                            \* the row-changed handlers being executed

\* one worker run and the slots that receive its signals
worker_vars == <<translator, task, pc, results, inflight, net, cb_calls, queue, log,
                 progress_bar, translated_paragraphs, controls_enabled, error_boxes>>

\* the main window with the workers it creates
window_vars == <<window, threads, events>>

\* the settings dialog and the selection of the two lists
side_vars == <<settings, selection>>

\* what a worker run leaves alone
outside_worker == <<applied, window_vars, side_vars>>

vars == <<worker_vars, outside_worker>>

----------------------------------------------------------------------------
(* Bounds of the model *)

\* longest batch handed to a worker
MaxItems == 3

\* longest text handed to a function taken on its own
MaxTextLen == 26

\* most TranslateWorker instances one main window creates
MaxWorkers == 2

\* most rows in a paragraph list
MaxRows == 2

\* longest document text handed to split_into_paragraphs
MaxDocLen == 4

----------------------------------------------------------------------------
(* Strings *)

\* str.strip() with no argument removes these from both ends
Whitespace == {" ", "\t", "\n", "\r"}

RECURSIVE LStrip(_)
LStrip(s) ==
    IF s = <<>> THEN <<>>
    ELSE IF Head(s) \in Whitespace THEN LStrip(Tail(s))
    ELSE s

RECURSIVE RStrip(_)
RStrip(s) ==
    IF s = <<>> THEN <<>>
    ELSE IF s[Len(s)] \in Whitespace THEN RStrip(SubSeq(s, 1, Len(s) - 1))
    ELSE s

Strip(s) == RStrip(LStrip(s))

\* `not text.strip()`
IsBlank(text) == Strip(text) = <<>>

Digit(d) == CASE d = 0 -> "0" [] d = 1 -> "1" [] d = 2 -> "2" [] d = 3 -> "3"
              [] d = 4 -> "4" [] d = 5 -> "5" [] d = 6 -> "6" [] d = 7 -> "7"
              [] d = 8 -> "8" [] d = 9 -> "9"

\* str(n) for an int n >= 0
RECURSIVE Str(_)
Str(n) == IF n < 10 THEN <<Digit(n)>> ELSE Str(n \div 10) \o <<Digit(n % 10)>>

----------------------------------------------------------------------------
(* config.py: language table *)

LANG_ITEMS == <<
    [generic |-> "zh-CN", baidu |-> "zh",  youdao |-> "zh-CHS"],
    [generic |-> "zh-TW", baidu |-> "cht", youdao |-> "zh-CHT"],
    [generic |-> "en",    baidu |-> "en",  youdao |-> "en"],
    [generic |-> "ja",    baidu |-> "jp",  youdao |-> "ja"],
    [generic |-> "ko",    baidu |-> "kor", youdao |-> "ko"],
    [generic |-> "fr",    baidu |-> "fra", youdao |-> "fr"],
    [generic |-> "de",    baidu |-> "de",  youdao |-> "de"],
    [generic |-> "es",    baidu |-> "spa", youdao |-> "es"],
    [generic |-> "ru",    baidu |-> "ru",  youdao |-> "ru"],
    [generic |-> "ar",    baidu |-> "ara", youdao |-> "ar"],
    [generic |-> "it",    baidu |-> "it",  youdao |-> "it"],
    [generic |-> "pt",    baidu |-> "pt",  youdao |-> "pt"] >>

\* index of the first table row whose generic code is `generic`, 0 when none
RECURSIVE FirstRow(_, _)
FirstRow(generic, k) ==
    IF k > Len(LANG_ITEMS) THEN 0
    ELSE IF LANG_ITEMS[k].generic = generic THEN k
    ELSE FirstRow(generic, k + 1)

\* get_baidu_lang answering "" for a code without a row
get_baidu_lang_or_empty(generic) ==
    LET k == FirstRow(generic, 1) IN IF k = 0 THEN "" ELSE LANG_ITEMS[k].baidu

get_baidu_lang(generic) ==
    LET k == FirstRow(generic, 1) IN IF k = 0 THEN generic ELSE LANG_ITEMS[k].baidu

get_youdao_lang(generic) ==
    LET k == FirstRow(generic, 1) IN IF k = 0 THEN generic ELSE LANG_ITEMS[k].youdao

----------------------------------------------------------------------------
(* Inputs and the outside world *)

\* paragraph texts: empty, whitespace only, and content after a leading blank
Texts == { <<>>, <<" ">>, <<" ", "a">> }

\* canonical target codes: two of the table (the second differs per vendor)
\* and one the table does not know
Targets == { "zh-CN", "xx" }

\* texts a translation service can hand back
Dsts == { <<>>, <<"x">> }

\* credentials held by the configuration
BaiduAppId   == <<"I">>
BaiduKey     == <<"K">>
YoudaoAppKey == <<"Y">>
YoudaoSecret == <<"S">>

\* random.randint(100000, 999999)
SaltMin == 100000
SaltMax == 999999
Salts == { SaltMin, SaltMax }

\* int(time.time())
Curtimes == { 1700000000 }

\* what GoogleTranslator(...).translate(text) can do: raise, or return a text
GoogleReplies ==
    { [raised |-> TRUE, value |-> <<>>] } \cup
    { [raised |-> FALSE, value |-> d] : d \in Dsts }

\* one entry of Baidu's trans_result list
BaiduEntry(has_dst, dst) == [has_dst |-> has_dst, dst |-> dst]

\* a JSON scalar under an error-code key: absent, a string or a number
ErrorCode(present, type, value) == [present |-> present, type |-> type, value |-> value]

NoErrorCode == ErrorCode(FALSE, "str", <<>>)

\* the parsed JSON object of a Baidu response
BaiduData(error_code, has_trans_result, trans_result) ==
    [error_code |-> error_code, has_trans_result |-> has_trans_result,
     trans_result |-> trans_result]

\* what requests.post + resp.json() can do for Baidu
BaiduReplies ==
    { [outcome |-> o, data |-> BaiduData(NoErrorCode, FALSE, <<>>)] :
        o \in {"transport_error", "not_json"} } \cup
    { [outcome |-> "json", data |-> d] : d \in
        { BaiduData(ErrorCode(TRUE, "str", <<"5", "2", "0", "0", "1">>), FALSE, <<>>),
          BaiduData(ErrorCode(TRUE, "str", <<"0">>), TRUE, <<BaiduEntry(TRUE, <<"x">>)>>),
          BaiduData(ErrorCode(TRUE, "int", <<"0">>), TRUE, <<BaiduEntry(TRUE, <<"x">>)>>),
          BaiduData(NoErrorCode, FALSE, <<>>),
          BaiduData(NoErrorCode, TRUE, <<>>),
          BaiduData(NoErrorCode, TRUE, <<BaiduEntry(FALSE, <<>>)>>),
          BaiduData(NoErrorCode, TRUE, <<BaiduEntry(TRUE, <<>>)>>),
          BaiduData(NoErrorCode, TRUE, <<BaiduEntry(TRUE, <<"x">>)>>),
          BaiduData(NoErrorCode, TRUE, <<BaiduEntry(TRUE, <<"x">>), BaiduEntry(TRUE, <<"y">>)>>) } }

\* the parsed JSON object of a Youdao response
YoudaoData(errorCode, has_translation, translation) ==
    [errorCode |-> errorCode, has_translation |-> has_translation,
     translation |-> translation]

\* what requests.post + resp.json() can do for Youdao
YoudaoReplies ==
    { [outcome |-> o, data |-> YoudaoData(NoErrorCode, FALSE, <<>>)] :
        o \in {"transport_error", "not_json"} } \cup
    { [outcome |-> "json", data |-> d] : d \in
        { YoudaoData(NoErrorCode, TRUE, << <<"x">> >>),
          YoudaoData(ErrorCode(TRUE, "int", <<"0">>), TRUE, << <<"x">> >>),
          YoudaoData(ErrorCode(TRUE, "str", <<"1", "0", "8">>), FALSE, <<>>),
          YoudaoData(ErrorCode(TRUE, "str", <<"0">>), FALSE, <<>>),
          YoudaoData(ErrorCode(TRUE, "str", <<"0">>), TRUE, <<>>),
          YoudaoData(ErrorCode(TRUE, "str", <<"0">>), TRUE, << <<>> >>),
          YoudaoData(ErrorCode(TRUE, "str", <<"0">>), TRUE, << <<"x">> >>),
          YoudaoData(ErrorCode(TRUE, "str", <<"0">>), TRUE, << <<"x">>, <<"y">> >>) } }

----------------------------------------------------------------------------
(* translators.py: the translator objects *)

Translator(kind, ready, err, id, secret) ==
    [kind |-> kind, ready |-> ready, err |-> err, id |-> id, secret |-> secret]

\* no translator constructed yet
NoTranslator == Translator("none", FALSE, "None", <<>>, <<>>)

\* the abstract interface, whose translate_many raises NotImplementedError
BaseTranslator == Translator("base", FALSE, "None", <<>>, <<>>)

\* __init__: the import of deep_translator succeeds or raises
GoogleWebTranslator(import_ok) ==
    IF import_ok THEN Translator("google", TRUE, "None", <<>>, <<>>)
    ELSE Translator("google", FALSE, "ImportError", <<>>, <<>>)

BaiduTranslator(appid, key) == Translator("baidu", FALSE, "None", appid, key)

YoudaoTranslator(app_key, app_secret) == Translator("youdao", FALSE, "None", app_key, app_secret)

----------------------------------------------------------------------------
(* GoogleWebTranslator *)

\* GoogleSends without the test of the ready flag
GoogleSendsIgnoresReady(self, text) == ~IsBlank(text)

\* translate_text reaches the try block, where the service is called
GoogleSends(self, text) ==
    IF IsBlank(text) THEN FALSE
    ELSE IF ~self.ready THEN FALSE
    ELSE TRUE

\* an optional keyword argument: given with a value, or left out
Given(v) == <<v>>
NotGiven == <<>>

\* one call leaving the process: where it goes, the fields it carries, the
\* Content-Type header set by hand ("" when none is) and the timeout argument
Post(endpoint, data, content_type, timeout) ==
    [endpoint |-> endpoint, data |-> data, content_type |-> content_type, timeout |-> timeout]

\* self.GoogleTranslator(source="auto", target=target).translate(text)
GoogleRequest(text, target) ==
    Post("deep_translator.GoogleTranslator",
         [source |-> "auto", target |-> target, text |-> text], "", NotGiven)

\* translate_text; `reply` is what the service does when it is called
translate_text(self, text, target, reply) ==
    IF ~GoogleSends(self, text) THEN text
    ELSE IF reply.raised THEN text
    ELSE reply.value

----------------------------------------------------------------------------
(* BaiduTranslator *)

\* hashlib.md5(raw).hexdigest(), kept symbolic: equal digests iff equal inputs
Md5(raw) == [alg |-> "md5", of |-> raw]

\* BaiduSign concatenating the salt before the text
BaiduSignSaltFirst(self, q, salt) == Md5(self.id \o salt \o q \o self.secret)

BaiduSign(self, q, salt) == Md5(self.id \o q \o salt \o self.secret)

\* BaiduSends testing `not text` instead of `not text.strip()`
BaiduSendsNonEmpty(text) == text # <<>>

BaiduSends(text) == ~IsBlank(text)

BaiduEndpoint == "https://fanyi-api.baidu.com/api/trans/vip/translate"

\* BaiduParams looking the target up in the other vendor's column
BaiduParamsYoudaoLang(self, text, target_generic, salt) ==
    [q |-> text, from |-> "auto", to |-> get_youdao_lang(target_generic),
     appid |-> self.id, salt |-> salt, sign |-> BaiduSign(self, text, salt)]

\* the dict `params`
BaiduParams(self, text, target_generic, salt) ==
    [q |-> text, from |-> "auto", to |-> get_baidu_lang(target_generic),
     appid |-> self.id, salt |-> salt, sign |-> BaiduSign(self, text, salt)]

\* requests.post(self.endpoint, data=params, timeout=15)
BaiduPost(self, text, target_generic, salt) ==
    Post(BaiduEndpoint, BaiduParams(self, text, target_generic, salt), "", Given(15))

\* BaiduOnReply that looks at the value of error_code instead of its presence
BaiduOnReplyErrorValue(text, reply) ==
    IF reply.outcome # "json" THEN text
    ELSE IF reply.data.error_code.present /\ reply.data.error_code.value # <<"0">> THEN text
    ELSE LET trans == IF reply.data.has_trans_result THEN reply.data.trans_result ELSE <<>> IN
         IF trans = <<>> THEN text
         ELSE LET dst == IF trans[1].has_dst THEN trans[1].dst ELSE text IN
              IF dst = <<>> THEN text ELSE dst

\* the try block of _translate_once
BaiduOnReply(text, reply) ==
    IF reply.outcome # "json" THEN text
    ELSE IF reply.data.error_code.present THEN text
    ELSE LET trans == IF reply.data.has_trans_result THEN reply.data.trans_result ELSE <<>> IN
         IF trans = <<>> THEN text
         ELSE LET dst == IF trans[1].has_dst THEN trans[1].dst ELSE text IN
              IF dst = <<>> THEN text ELSE dst

Baidu_translate_once(text, reply) ==
    IF ~BaiduSends(text) THEN text ELSE BaiduOnReply(text, reply)

----------------------------------------------------------------------------
(* YoudaoTranslator *)

\* _truncate that already cuts a text of exactly 20 characters
TruncateFrom20(q) ==
    LET size == Len(q) IN
    IF size < 20 THEN q
    ELSE SubSeq(q, 1, 10) \o Str(size) \o SubSeq(q, size - 9, size)

\* _truncate
Truncate(q) ==
    LET size == Len(q) IN
    IF size <= 20 THEN q
    ELSE SubSeq(q, 1, 10) \o Str(size) \o SubSeq(q, size - 9, size)

\* hashlib.sha256(sign_str).hexdigest(), kept symbolic
Sha256(raw) == [alg |-> "sha256", of |-> raw]

\* _sign over the whole text
YoudaoSignFullText(self, q, salt, curtime) ==
    Sha256(self.id \o q \o salt \o curtime \o self.secret)

YoudaoSign(self, q, salt, curtime) ==
    Sha256(self.id \o Truncate(q) \o salt \o curtime \o self.secret)

YoudaoSends(text) == ~IsBlank(text)

YoudaoEndpoint == "https://openapi.youdao.com/api"

\* the dict `payload`
YoudaoPayload(self, text, target_generic, salt, curtime) ==
    [q |-> text, from |-> "auto", to |-> get_youdao_lang(target_generic),
     appKey |-> self.id, salt |-> salt, signType |-> "v3", curtime |-> curtime,
     sign |-> YoudaoSign(self, text, salt, curtime)]

\* requests.post(self.endpoint, data=payload, headers=headers, timeout=15)
YoudaoPost(self, text, target_generic, salt, curtime) ==
    Post(YoudaoEndpoint, YoudaoPayload(self, text, target_generic, salt, curtime),
         "application/x-www-form-urlencoded", Given(15))

\* the comparison accepting the number 0 as well as the string "0"
ErrorCodeIsNotZero(data) ==
    ~(data.errorCode.present /\ data.errorCode.value = <<"0">>)

\* data.get("errorCode") != "0"
ErrorCodeIsNotZeroString(data) ==
    ~(data.errorCode.present /\ data.errorCode.type = "str" /\ data.errorCode.value = <<"0">>)

\* YoudaoOnReply whose except branch returns "" instead of the text
YoudaoOnReplyErrorEmpty(text, reply) ==
    IF reply.outcome # "json" THEN <<>>
    ELSE IF ErrorCodeIsNotZeroString(reply.data) THEN text
    ELSE LET trans == IF reply.data.has_translation THEN reply.data.translation ELSE <<>> IN
         IF trans = <<>> THEN text
         ELSE IF trans[1] = <<>> THEN text ELSE trans[1]

\* the try block of _translate_once
YoudaoOnReply(text, reply) ==
    IF reply.outcome # "json" THEN text
    ELSE IF ErrorCodeIsNotZeroString(reply.data) THEN text
    ELSE LET trans == IF reply.data.has_translation THEN reply.data.translation ELSE <<>> IN
         IF trans = <<>> THEN text
         ELSE IF trans[1] = <<>> THEN text ELSE trans[1]

Youdao_translate_once(text, reply) ==
    IF ~YoudaoSends(text) THEN text ELSE YoudaoOnReply(text, reply)

----------------------------------------------------------------------------
(* The translate_many loop, common to the three variants *)

\* does the per-item call of this translator reach the network for `text`
Sends(self, text) ==
    CASE self.kind = "google" -> GoogleSends(self, text)
      [] self.kind = "baidu"  -> BaiduSends(text)
      [] self.kind = "youdao" -> YoudaoSends(text)
      [] OTHER -> FALSE

\* the replies the service of this translator can give
Replies(self) ==
    CASE self.kind = "google" -> GoogleReplies
      [] self.kind = "baidu"  -> BaiduReplies
      [] self.kind = "youdao" -> YoudaoReplies
      [] OTHER -> {}

\* the request the per-item call sends
Request(self, text, target, salt, curtime) ==
    CASE self.kind = "google" -> GoogleRequest(text, target)
      [] self.kind = "baidu"  -> BaiduPost(self, text, target, Str(salt))
      [] self.kind = "youdao" -> YoudaoPost(self, text, target, Str(salt), Str(curtime))

\* self.translate_text(t, target) / self._translate_once(t, target)
TranslateOne(self, text, target, reply) ==
    CASE self.kind = "google" -> translate_text(self, text, target, reply)
      [] self.kind = "baidu"  -> Baidu_translate_once(text, reply)
      [] self.kind = "youdao" -> Youdao_translate_once(text, reply)

\* AppendResult inserting at the front of the list
AppendResultFront(res, out) == <<out>> \o res

\* results.append(...)
AppendResult(res, out) == Append(res, out)

\* ProgressArgs with enumerate() left to start at 0
ProgressArgsZeroBased(i, total) == <<i - 1, total>>

\* ProgressArgs with the two arguments swapped
ProgressArgsSwapped(i, total) == <<total, i>>

\* the arguments of progress_cb for the item enumerate() numbers i
ProgressArgs(i, total) == <<i, total>>

\* the loop has consumed every text
LoopDone(res, texts) == Len(res) >= Len(texts)

----------------------------------------------------------------------------
(* TranslateWorker and its signals *)

Event(sig, done, total, result, msg) ==
    [sig |-> sig, done |-> done, total |-> total, result |-> result, msg |-> msg]

ProgressEvent(args) == Event("progress", args[1], args[2], <<>>, "")
ResultEvent(result) == Event("finished_with_result", 0, 0, result, "")
FailedEvent(msg)    == Event("failed", 0, 0, <<>>, msg)
FinishedEvent       == Event("finished", 0, 0, <<>>, "")

\* raise NotImplementedError
NotImplementedError == [type |-> "NotImplementedError", args |-> <<>>]

\* str(e) of an exception: its single argument, "" when it has none
ExcStr(e) == IF e.args = <<>> THEN "" ELSE e.args[1]

\* what a reply amounts to, in the words of the interface contract: the call
\* raised, the body was no JSON, the vendor reported an error, the reply held
\* no translated text, or it held one
Outcome(self, reply) ==
    CASE self.kind = "google" ->
            IF reply.raised THEN "transport_error"
            ELSE IF reply.value = <<>> THEN "empty" ELSE "ok"
      [] self.kind = "baidu" ->
            IF reply.outcome # "json" THEN reply.outcome
            ELSE IF reply.data.error_code.present THEN "vendor_error"
            ELSE IF ~reply.data.has_trans_result \/ reply.data.trans_result = <<>> THEN "empty"
            ELSE IF ~reply.data.trans_result[1].has_dst THEN "empty"
            ELSE IF reply.data.trans_result[1].dst = <<>> THEN "empty" ELSE "ok"
      [] self.kind = "youdao" ->
            IF reply.outcome # "json" THEN reply.outcome
            ELSE IF reply.data.errorCode # ErrorCode(TRUE, "str", <<"0">>) THEN "vendor_error"
            ELSE IF ~reply.data.has_translation \/ reply.data.translation = <<>> THEN "empty"
            ELSE IF reply.data.translation[1] = <<>> THEN "empty" ELSE "ok"

\* the translated text an "ok" reply holds
Offer(self, reply) ==
    IF Outcome(self, reply) # "ok" THEN <<>>
    ELSE CASE self.kind = "google" -> reply.value
           [] self.kind = "baidu"  -> reply.data.trans_result[1].dst
           [] self.kind = "youdao" -> reply.data.translation[1]

\* the record kept of one network call
Call(self, item, text, reply) ==
    [item |-> item, q |-> text, outcome |-> Outcome(self, reply), offer |-> Offer(self, reply)]

\* a signal emitted in the worker thread is queued to the main thread
Emit(q, ev) == Append(q, ev)

NoRequest == Post("", <<>>, "", NotGiven)

Batches == UNION { [1..n -> Texts] : n \in 0..MaxItems }

\* AppConfig
AppConfig(provider, baidu_appid, baidu_key, youdao_app_key, youdao_app_secret) ==
    [provider |-> provider, baidu_appid |-> baidu_appid, baidu_key |-> baidu_key,
     youdao_app_key |-> youdao_app_key, youdao_app_secret |-> youdao_app_secret]

\* what AppConfig.load() can return: the defaults, each vendor with one
\* credential missing, and an engine name nobody knows
Configs ==
    { AppConfig("google", <<>>, <<>>, <<>>, <<>>),
      AppConfig("baidu", BaiduAppId, <<>>, <<>>, <<>>),
      AppConfig("youdao", <<>>, <<>>, YoudaoAppKey, <<>>),
      AppConfig("bing", <<>>, <<>>, <<>>, <<>>) }

\* MainWindow.__init__: nothing loaded, auto-translate ticked, the first
\* language of the table selected, the three buttons enabled
MainWindow(config) ==
    [config |-> config,
     original_paragraphs |-> <<>>,
     translated_paragraphs |-> <<>>,
     left_list |-> <<>>,
     right_list |-> <<>>,
     progress_bar |-> 0,
     buttons_enabled |-> TRUE,
     auto_translate |-> TRUE,
     target_code |-> LANG_ITEMS[1].generic,
     current_worker |-> 0,
     aborted |-> FALSE]

\* _update_engine_label: the text for a provider
EngineLabel(provider) ==
    CASE provider = "google" -> "Google Web"
      [] provider = "baidu"  -> "Baidu"
      [] provider = "youdao" -> "Youdao"
      [] OTHER -> "unknown"

\* no settings dialog has been opened; the label shows the loaded provider
NoDialog(config) ==
    [phase |-> "closed", form |-> config, opened_with |-> config, result |-> "",
     box |-> "", engine_label |-> EngineLabel(config.provider)]

\* a row-changed handler being executed: whose signal, its argument, where it is
Frame(side, row, at, raised) == [side |-> side, row |-> row, at |-> at, raised |-> raised]

\* both lists empty, nothing selected, _sync_selecting = False
NoSelection ==
    [left_count |-> 0, right_count |-> 0, left_row |-> -1, right_row |-> -1,
     sync_selecting |-> FALSE, stack |-> <<>>, mirrored |-> 0,
     last |-> [side |-> "left", row |-> -1]]

\* a call of `fn` with the arguments `args` that returned `out`
Applied(fn, args, out) == [fn |-> fn, args |-> args, out |-> out]

NotApplied == Applied("", <<>>, <<>>)

Translators ==
    { BaseTranslator, GoogleWebTranslator(TRUE), GoogleWebTranslator(FALSE),
      BaiduTranslator(BaiduAppId, BaiduKey), YoudaoTranslator(YoudaoAppKey, YoudaoSecret) }

Init ==
    /\ translator = NoTranslator
    /\ task = [paragraphs |-> <<>>, target_lang |-> ""]
    /\ pc = "idle"
    /\ results = <<>>
    /\ inflight = NoRequest
    /\ net = <<>>
    /\ cb_calls = <<>>
    /\ queue = <<>>
    /\ log = <<>>
    /\ progress_bar = 0
    /\ translated_paragraphs = <<>>
    /\ controls_enabled = TRUE
    /\ error_boxes = <<>>
    /\ applied = NotApplied
    /\ window = MainWindow(AppConfig("google", <<>>, <<>>, <<>>, <<>>))
    /\ threads = <<>>
    /\ events = <<>>
    /\ settings = NoDialog(window.config)
    /\ selection = NoSelection

\* the caller disables its controls, constructs the worker, connects the four
\* signals and starts the thread.  The worker is driven at its interface: any
\* batch (empty, or with blank items) and any translator, the abstract
\* BaseTranslator included.
StartWorker(tr, paragraphs, target) ==
    /\ pc = "idle"
    /\ translator' = tr
    /\ task' = [paragraphs |-> paragraphs, target_lang |-> target]
    /\ controls_enabled' = FALSE
    /\ progress_bar' = 0
    /\ results' = <<>>
    /\ pc' = "many"
    /\ UNCHANGED <<outside_worker, inflight, net, cb_calls, queue, log, translated_paragraphs, error_boxes>>

\* the loop walking the list from its end
CurIndexFromEnd == Len(task.paragraphs) - Len(results)

\* the item the loop is at
CurIndex == Len(results) + 1
CurText == task.paragraphs[CurIndex]

\* FinishItem whose callback holds the events back until the last item
FinishItemCoalesced(out) ==
    LET args == ProgressArgs(CurIndex, Len(task.paragraphs)) IN
    /\ results' = AppendResult(results, out)
    /\ cb_calls' = Append(cb_calls, args)
    /\ queue' = IF CurIndex = Len(task.paragraphs)
                THEN Emit(queue, ProgressEvent(args)) ELSE queue

\* the tail of one loop iteration: append the result, call progress_cb
FinishItem(out) ==
    LET args == ProgressArgs(CurIndex, Len(task.paragraphs)) IN
    /\ results' = AppendResult(results, out)
    /\ cb_calls' = Append(cb_calls, args)
    /\ queue' = Emit(queue, ProgressEvent(args))

\* one iteration whose per-item call returns without touching the network
ItemLocal ==
    /\ pc = "many"
    /\ translator.kind # "base"
    /\ ~LoopDone(results, task.paragraphs)
    /\ ~Sends(translator, CurText)
    /\ FinishItem(TranslateOne(translator, CurText, task.target_lang,
                               CHOOSE r \in Replies(translator) : TRUE))
    /\ UNCHANGED <<outside_worker, translator, task, pc, inflight, net, log, progress_bar,
                   translated_paragraphs, controls_enabled, error_boxes>>

\* one iteration reaches the network call and blocks in it
ItemSend(salt, curtime) ==
    /\ pc = "many"
    /\ translator.kind # "base"
    /\ ~LoopDone(results, task.paragraphs)
    /\ Sends(translator, CurText)
    /\ inflight' = Request(translator, CurText, task.target_lang, salt, curtime)
    /\ pc' = "net"
    /\ UNCHANGED <<outside_worker, translator, task, results, net, cb_calls, queue, log, progress_bar,
                   translated_paragraphs, controls_enabled, error_boxes>>

\* the network call ends (reply, error or timeout) and the iteration completes
ItemReceive(reply) ==
    /\ pc = "net"
    /\ net' = Append(net, Call(translator, CurIndex, CurText, reply))
    /\ FinishItem(TranslateOne(translator, CurText, task.target_lang, reply))
    /\ inflight' = NoRequest
    /\ pc' = "many"
    /\ UNCHANGED <<outside_worker, translator, task, log, progress_bar,
                   translated_paragraphs, controls_enabled, error_boxes>>

\* RunReturn emitting the task's paragraphs instead of the returned list
RunReturnEmitsInput ==
    /\ pc = "many"
    /\ translator.kind # "base"
    /\ LoopDone(results, task.paragraphs)
    /\ queue' = Emit(queue, ResultEvent(task.paragraphs))
    /\ pc' = "exit"
    /\ UNCHANGED <<outside_worker, translator, task, results, inflight, net, cb_calls, log, progress_bar,
                   translated_paragraphs, controls_enabled, error_boxes>>

\* translate_many returns and run() emits the result
RunReturn ==
    /\ pc = "many"
    /\ translator.kind # "base"
    /\ LoopDone(results, task.paragraphs)
    /\ queue' = Emit(queue, ResultEvent(results))
    /\ pc' = "exit"
    /\ UNCHANGED <<outside_worker, translator, task, results, inflight, net, cb_calls, log, progress_bar,
                   translated_paragraphs, controls_enabled, error_boxes>>

\* RunExcept that goes on to emit the (empty) result after the failure
RunExceptThenResult ==
    /\ pc = "many"
    /\ translator.kind = "base"
    /\ queue' = Emit(Emit(queue, FailedEvent(ExcStr(NotImplementedError))), ResultEvent(results))
    /\ pc' = "exit"
    /\ UNCHANGED <<outside_worker, translator, task, results, inflight, net, cb_calls, log, progress_bar,
                   translated_paragraphs, controls_enabled, error_boxes>>

\* RunExcept that swallows the exception without emitting failed
RunExceptSilent ==
    /\ pc = "many"
    /\ translator.kind = "base"
    /\ pc' = "exit"
    /\ UNCHANGED <<outside_worker, translator, task, results, inflight, net, cb_calls, queue, log,
                   progress_bar, translated_paragraphs, controls_enabled, error_boxes>>

\* translate_many raises and run() catches the exception
RunExcept ==
    /\ pc = "many"
    /\ translator.kind = "base"
    /\ queue' = Emit(queue, FailedEvent(ExcStr(NotImplementedError)))
    /\ pc' = "exit"
    /\ UNCHANGED <<outside_worker, translator, task, results, inflight, net, cb_calls, log, progress_bar,
                   translated_paragraphs, controls_enabled, error_boxes>>

\* run() has returned: the thread emits finished and ends
ThreadFinished ==
    /\ pc = "exit"
    /\ queue' = Emit(queue, FinishedEvent)
    /\ pc' = "done"
    /\ UNCHANGED <<outside_worker, translator, task, results, inflight, net, cb_calls, log, progress_bar,
                   translated_paragraphs, controls_enabled, error_boxes>>

----------------------------------------------------------------------------
(* main.py: the slots connected to the worker's signals *)

\* the event loop hands the oldest queued signal to its slot
Dispatch(sig) ==
    /\ queue # <<>>
    /\ Head(queue).sig = sig
    /\ queue' = Tail(queue)
    /\ log' = Append(log, Head(queue))

Min(a, b) == IF a < b THEN a ELSE b
Max(a, b) == IF a > b THEN a ELSE b

\* the value on_translate_progress sets
Percent(done, total) ==
    IF total <= 0 THEN 0 ELSE Min(Max((done * 100) \div total, 0), 100)

on_translate_progress ==
    /\ Dispatch("progress")
    /\ progress_bar' = Percent(Head(queue).done, Head(queue).total)
    /\ UNCHANGED <<outside_worker, translator, task, pc, results, inflight, net, cb_calls,
                   translated_paragraphs, controls_enabled, error_boxes>>

on_translate_finished ==
    /\ Dispatch("finished_with_result")
    /\ translated_paragraphs' = Head(queue).result
    /\ UNCHANGED <<outside_worker, translator, task, pc, results, inflight, net, cb_calls,
                   progress_bar, controls_enabled, error_boxes>>

on_translate_failed ==
    /\ Dispatch("failed")
    /\ error_boxes' = Append(error_boxes, Head(queue).msg)
    /\ UNCHANGED <<outside_worker, translator, task, pc, results, inflight, net, cb_calls,
                   progress_bar, translated_paragraphs, controls_enabled>>

on_worker_finished ==
    /\ Dispatch("finished")
    /\ controls_enabled' = TRUE
    /\ UNCHANGED <<outside_worker, translator, task, pc, results, inflight, net, cb_calls,
                   progress_bar, translated_paragraphs, error_boxes>>

----------------------------------------------------------------------------

Next ==
    \/ \E tr \in Translators, paragraphs \in Batches, target \in Targets :
          StartWorker(tr, paragraphs, target)
    \/ ItemLocal
    \/ \E salt \in Salts, curtime \in Curtimes : ItemSend(salt, curtime)
    \/ \E reply \in Replies(translator) : ItemReceive(reply)
    \/ RunReturn
    \/ RunExcept
    \/ ThreadFinished
    \/ on_translate_progress
    \/ on_translate_finished
    \/ on_translate_failed
    \/ on_worker_finished

Spec == Init /\ [][Next]_vars

----------------------------------------------------------------------------
(* Functions taken on their own: each action calls one function once with   *)
(* arguments drawn from the sets below and records the call.                *)

Letters == <<"a", "b", "c", "d", "e", "f", "g", "h", "i", "j", "k", "l", "m",
             "n", "o", "p", "q", "r", "s", "t", "u", "v", "w", "x", "y", "z">>

\* the text of n letters that starts at letter number `start` of the alphabet
TextFrom(start, n) == [k \in 1..n |-> Letters[((start + k - 2) % Len(Letters)) + 1]]

\* texts of every length from 0 to MaxTextLen
LongTexts == { TextFrom(start, n) : start \in {1, 2}, n \in 0..MaxTextLen }

\* codes handed to the lookups: every canonical code of the table, a vendor's
\* own code, a code in another case, the empty code and an unknown code
Codes == { LANG_ITEMS[k].generic : k \in DOMAIN LANG_ITEMS } \cup { "zh", "ZH-cn", "", "xx" }

Apply_get_baidu_lang(generic) ==
    /\ applied' = Applied("get_baidu_lang", <<generic>>, get_baidu_lang(generic))
    /\ UNCHANGED <<worker_vars, window_vars, side_vars>>

Apply_get_youdao_lang(generic) ==
    /\ applied' = Applied("get_youdao_lang", <<generic>>, get_youdao_lang(generic))
    /\ UNCHANGED <<worker_vars, window_vars, side_vars>>

Apply_truncate(q) ==
    /\ applied' = Applied("YoudaoTranslator._truncate", <<q>>, Truncate(q))
    /\ UNCHANGED <<worker_vars, window_vars, side_vars>>

\* BaiduTranslator._translate_once for a text, given what the service does
Apply_Baidu_translate_once(text, reply) ==
    /\ applied' = Applied("BaiduTranslator._translate_once", <<text, reply>>,
                          Baidu_translate_once(text, reply))
    /\ UNCHANGED <<worker_vars, window_vars, side_vars>>

\* YoudaoTranslator._translate_once for a text, given what the service does
Apply_Youdao_translate_once(text, reply) ==
    /\ applied' = Applied("YoudaoTranslator._translate_once", <<text, reply>>,
                          Youdao_translate_once(text, reply))
    /\ UNCHANGED <<worker_vars, window_vars, side_vars>>

\* YoudaoTranslator._translate_once up to its requests.post, for a text that
\* gets that far: the value recorded is the request
Apply_Youdao_request(text, target, salt, curtime) ==
    /\ YoudaoSends(text)
    /\ applied' = Applied("YoudaoTranslator._translate_once: post",
                          <<text, target, Str(salt), Str(curtime)>>,
                          Request(YoudaoTranslator(YoudaoAppKey, YoudaoSecret),
                                  text, target, salt, curtime))
    /\ UNCHANGED <<worker_vars, window_vars, side_vars>>

\* text.replace("\r\n", "\n")
RECURSIVE ReplaceCRLF(_)
ReplaceCRLF(s) ==
    IF s = <<>> THEN <<>>
    ELSE IF Len(s) >= 2 /\ s[1] = "\r" /\ s[2] = "\n"
         THEN <<"\n">> \o ReplaceCRLF(SubSeq(s, 3, Len(s)))
         ELSE <<Head(s)>> \o ReplaceCRLF(Tail(s))

\* .replace("\r", "\n")
RECURSIVE ReplaceCR(_)
ReplaceCR(s) ==
    IF s = <<>> THEN <<>>
    ELSE <<IF Head(s) = "\r" THEN "\n" ELSE Head(s)>> \o ReplaceCR(Tail(s))

\* s.split("\n\n"), `cur` being the piece collected so far
RECURSIVE SplitBlankLine(_, _)
SplitBlankLine(s, cur) ==
    IF s = <<>> THEN <<cur>>
    ELSE IF Len(s) >= 2 /\ s[1] = "\n" /\ s[2] = "\n"
         THEN <<cur>> \o SplitBlankLine(SubSeq(s, 3, Len(s)), <<>>)
         ELSE SplitBlankLine(Tail(s), Append(cur, Head(s)))

\* a piece taken as it is
PieceKept(p) == p

\* p.strip() of the comprehension
PieceStripped(p) == Strip(p)

\* [p.strip() for p in s.split("\n\n") if p.strip()]
StrippedPieces(s) ==
    LET pieces == SplitBlankLine(s, <<>>)
        kept == SelectSeq(pieces, LAMBDA p : ~IsBlank(p))
    IN [k \in DOMAIN kept |-> PieceStripped(kept[k])]

\* the for loop: paragraphs.extend(chunked if chunked else [part])
RECURSIVE ExtendChunks(_)
ExtendChunks(parts) ==
    IF parts = <<>> THEN <<>>
    ELSE LET chunked == StrippedPieces(Head(parts)) IN
         (IF chunked # <<>> THEN chunked ELSE <<Head(parts)>>) \o ExtendChunks(Tail(parts))

split_into_paragraphs(text) ==
    IF text = <<>> THEN <<>>
    ELSE ExtendChunks(StrippedPieces(ReplaceCR(ReplaceCRLF(text))))

\* document texts: every text over a letter, a blank and a newline up to
\* MaxDocLen, and some with carriage returns
DocChars == {"a", " ", "\n"}
DocTexts ==
    UNION { [1..n -> DocChars] : n \in 0..MaxDocLen } \cup
    { <<"\r">>, <<"a", "\r", "\n", "b">>, <<"a", "\r", "\r", "b">>,
      <<"a", "\r", "\n", "\r", "\n", " ", "b", "\r", "\n">>,
      <<"a", " ", "\n", "\n", "\n", "b", "\n", "c", "\n", "\n">> }

Apply_split_into_paragraphs(text) ==
    /\ applied' = Applied("split_into_paragraphs", <<text>>, split_into_paragraphs(text))
    /\ UNCHANGED <<worker_vars, window_vars, side_vars>>

\* what a progress callback does on its i-th call when it raises on the calls
\* numbered in `raises`
CallbackOutcome(raises, i) == IF i \in raises THEN "raised" ELSE "returned"

\* a loop that lets the exception of the callback out
AfterCallbackPropagates(outcome) == IF outcome = "raised" THEN "abort" ELSE "continue"

\* try: progress_cb(i, total) / except Exception: pass
AfterCallback(outcome) == "continue"

\* the for loop of translate_many from item i on, with the results and the
\* callback calls made so far; `reply` is what the service does for each item
RECURSIVE translate_many_from(_, _, _, _, _, _, _, _)
translate_many_from(self, texts, target, reply, raises, i, res, calls) ==
    IF i > Len(texts) THEN [raised |-> FALSE, results |-> res, calls |-> calls]
    ELSE LET res1 == AppendResult(res, TranslateOne(self, texts[i], target, reply))
             calls1 == Append(calls, ProgressArgs(i, Len(texts)))
         IN IF AfterCallback(CallbackOutcome(raises, i)) = "abort"
            THEN [raised |-> TRUE, results |-> res1, calls |-> calls1]
            ELSE translate_many_from(self, texts, target, reply, raises, i + 1, res1, calls1)

translate_many(self, texts, target, reply, raises) ==
    translate_many_from(self, texts, target, reply, raises, 1, <<>>, <<>>)

\* batches for a callback that raises: a text with content at the odd
\* places, a blank one at the even places
CallbackBatches ==
    { [k \in 1..n |-> IF k % 2 = 1 THEN <<" ", "a">> ELSE <<" ">>] : n \in 0..MaxItems }

\* the translators whose translate_many has a loop
LoopTranslators == Translators \ { BaseTranslator }

Apply_translate_many(self, texts, reply, raises) ==
    /\ applied' = Applied("translate_many", <<self, texts, reply, raises>>,
                          translate_many(self, texts, "zh-CN", reply, raises))
    /\ UNCHANGED <<worker_vars, window_vars, side_vars>>

PureNext ==
    \/ \E generic \in Codes : Apply_get_baidu_lang(generic)
    \/ \E generic \in Codes : Apply_get_youdao_lang(generic)
    \/ \E q \in LongTexts : Apply_truncate(q)
    \/ \E text \in Texts, reply \in BaiduReplies : Apply_Baidu_translate_once(text, reply)
    \/ \E text \in Texts, reply \in YoudaoReplies : Apply_Youdao_translate_once(text, reply)
    \/ \E text \in LongTexts, target \in Targets, salt \in Salts, curtime \in Curtimes :
          Apply_Youdao_request(text, target, salt, curtime)
    \/ \E text \in DocTexts : Apply_split_into_paragraphs(text)
    \/ \E self \in LoopTranslators, texts \in CallbackBatches :
          \E reply \in Replies(self), raises \in SUBSET (1..Len(texts)) :
             Apply_translate_many(self, texts, reply, raises)

PureSpec == Init /\ [][PureNext]_vars

----------------------------------------------------------------------------
(* main.py: the main window, the workers it creates and their signals.      *)
(* Here a worker run is taken as a whole per item (its inside is the first  *)
(* specification); what matters is which instance runs, what it was given   *)
(* and which signals it queues.                                             *)

\* documents a file can hold, as split_into_paragraphs returns them: one
\* without text and two different ones
Docs == { <<>>, << <<"a">> >>, << <<"b">> >> }

\* languages the user picks in the combo box
ComboCodes == { LANG_ITEMS[1].generic, LANG_ITEMS[3].generic }

\* the text a translator hands back for `text`, kept symbolic
Translation(text, target) == <<target>> \o text

\* _build_translator asking for one credential only
build_translator_one_credential(config) ==
    CASE config.provider = "google" -> "google"
      [] config.provider = "baidu" ->
            IF config.baidu_appid = <<>> /\ config.baidu_key = <<>> THEN "None" ELSE "baidu"
      [] config.provider = "youdao" ->
            IF config.youdao_app_key = <<>> /\ config.youdao_app_secret = <<>>
            THEN "None" ELSE "youdao"
      [] OTHER -> "None"

\* _build_translator: the kind of translator built, "None" when none is
build_translator(config) ==
    CASE config.provider = "google" -> "google"
      [] config.provider = "baidu" ->
            IF config.baidu_appid = <<>> \/ config.baidu_key = <<>> THEN "None" ELSE "baidu"
      [] config.provider = "youdao" ->
            IF config.youdao_app_key = <<>> \/ config.youdao_app_secret = <<>>
            THEN "None" ELSE "youdao"
      [] OTHER -> "None"

\* TranslateWorker(task, translator) followed by start()
NewWorker(paragraphs, target, kind) ==
    [paragraphs |-> paragraphs, target_lang |-> target, translator |-> kind,
     pc |-> "started", starts |-> 1, runs |-> 0, done |-> 0]

\* the window starting again the worker it holds once that one has finished
WorkersAfterStartReusing(ths, cur, paragraphs, target, kind) ==
    IF cur # 0 /\ ths[cur].pc = "done"
    THEN [ths EXCEPT ![cur] = [@ EXCEPT !.paragraphs = paragraphs, !.target_lang = target,
                                          !.translator = kind, !.pc = "started",
                                          !.starts = @ + 1, !.done = 0]]
    ELSE Append(ths, NewWorker(paragraphs, target, kind))

\* self._current_worker = TranslateWorker(task, translator) ... .start()
WorkersAfterStart(ths, cur, paragraphs, target, kind) ==
    Append(ths, NewWorker(paragraphs, target, kind))

\* the instance self._current_worker refers to after the start
StartedWorker(before, after, cur) == IF Len(after) > Len(before) THEN Len(after) ELSE cur

\* on_translate_clicked as a function of the window and its workers
translate_clicked(win, ths) ==
    IF win.original_paragraphs = <<>> THEN [window |-> win, threads |-> ths]
    ELSE IF win.target_code = "" THEN [window |-> win, threads |-> ths]
    ELSE LET kind == build_translator(win.config) IN
         IF kind = "None" THEN [window |-> win, threads |-> ths]
         ELSE LET after == WorkersAfterStart(ths, win.current_worker, win.original_paragraphs,
                                             win.target_code, kind)
              IN [window |-> [win EXCEPT !.buttons_enabled = FALSE,
                                         !.progress_bar = 0,
                                         !.current_worker =
                                             StartedWorker(ths, after, win.current_worker)],
                  threads |-> after]

\* load_document for a file that was read
load_document(win, ths, doc) ==
    IF doc = <<>>
    THEN [window |-> [win EXCEPT !.original_paragraphs = doc, !.left_list = <<>>,
                                 !.right_list = <<>>, !.progress_bar = 0],
          threads |-> ths]
    ELSE LET loaded == [win EXCEPT !.original_paragraphs = doc, !.left_list = doc,
                                   !.right_list = <<>>, !.translated_paragraphs = <<>>,
                                   !.progress_bar = 0]
         IN IF loaded.auto_translate THEN translate_clicked(loaded, ths)
            ELSE [window |-> loaded, threads |-> ths]

\* a handler of the main thread ends in the state `to`
Becomes(to) ==
    /\ ~window.aborted
    /\ Len(to.threads) <= MaxWorkers
    /\ window' = to.window
    /\ threads' = to.threads
    /\ UNCHANGED <<events, worker_vars, applied, side_vars>>

\* the open button: a file was chosen and read
MainWindow_on_open_file_clicked(doc) ==
    /\ window.buttons_enabled
    /\ Becomes(load_document(window, threads, doc))

\* the translate button
MainWindow_on_translate_clicked ==
    /\ window.buttons_enabled
    /\ Becomes(translate_clicked(window, threads))

\* the refresh button
MainWindow_on_refresh_clicked ==
    /\ window.buttons_enabled
    /\ Becomes(IF window.original_paragraphs # <<>>
               THEN translate_clicked(window, threads)
               ELSE [window |-> window, threads |-> threads])

\* the user picks another language in the combo box
MainWindow_on_language_changed(code) ==
    /\ code # window.target_code
    /\ LET picked == [window EXCEPT !.target_code = code] IN
       Becomes(IF picked.auto_translate /\ picked.original_paragraphs # <<>>
               THEN translate_clicked(picked, threads)
               ELSE [window |-> picked, threads |-> threads])

\* the user ticks or unticks the auto-translate box
ToggleAutoTranslate ==
    /\ ~window.aborted
    /\ window' = [window EXCEPT !.auto_translate = ~@]
    /\ UNCHANGED <<threads, events, worker_vars, applied, side_vars>>

\* a signal of worker w
Signal(sig, w, done, total, result) ==
    [sig |-> sig, worker |-> w, done |-> done, total |-> total, result |-> result]

\* the new thread enters run()
Worker_run(w) ==
    /\ threads[w].pc = "started"
    /\ threads' = [threads EXCEPT ![w].pc = "many", ![w].runs = @ + 1]
    /\ UNCHANGED <<window, events, worker_vars, applied, side_vars>>

\* one iteration of translate_many in worker w, with its progress signal
Worker_item(w) ==
    /\ threads[w].pc = "many"
    /\ threads[w].done < Len(threads[w].paragraphs)
    /\ threads' = [threads EXCEPT ![w].done = @ + 1]
    /\ events' = Append(events, Signal("progress", w, threads[w].done + 1,
                                       Len(threads[w].paragraphs), <<>>))
    /\ UNCHANGED <<window, worker_vars, applied, side_vars>>

\* translate_many of worker w returns and run() emits the result
Worker_result(w) ==
    /\ threads[w].pc = "many"
    /\ threads[w].done = Len(threads[w].paragraphs)
    /\ threads' = [threads EXCEPT ![w].pc = "exit"]
    /\ events' = Append(events, Signal("finished_with_result", w, 0, 0,
                    [k \in DOMAIN threads[w].paragraphs |->
                        Translation(threads[w].paragraphs[k], threads[w].target_lang)]))
    /\ UNCHANGED <<window, worker_vars, applied, side_vars>>

\* run() of worker w has returned: the thread emits finished and ends
Worker_finished(w) ==
    /\ threads[w].pc = "exit"
    /\ threads' = [threads EXCEPT ![w].pc = "done"]
    /\ events' = Append(events, Signal("finished", w, 0, 0, <<>>))
    /\ UNCHANGED <<window, worker_vars, applied, side_vars>>

\* what is left of the process after Qt has aborted it
Aborted == [MainWindow(AppConfig("google", <<>>, <<>>, <<>>, <<>>)) EXCEPT !.aborted = TRUE]

\* A worker the window no longer refers to (self._current_worker was
\* overwritten by a later start) is kept alive only by the frame of its run().
\* Before run() is entered and after it has returned the object can be
\* collected while its thread still runs; Qt then aborts the process
\* ("QThread: Destroyed while thread is still running").  Whether that
\* happens depends on when the binding releases the object, so it is one
\* possible step, next to the worker simply going on.
Worker_destroyed(w) ==
    /\ w # window.current_worker
    /\ threads[w].pc \in {"started", "exit"}
    /\ window' = Aborted
    /\ threads' = <<>>
    /\ events' = <<>>
    /\ UNCHANGED <<worker_vars, applied, side_vars>>

\* the event loop hands the oldest queued signal to its slot
Deliver(sig) ==
    /\ events # <<>>
    /\ Head(events).sig = sig
    /\ events' = Tail(events)
    /\ UNCHANGED <<threads, worker_vars, applied, side_vars>>

MainWindow_on_translate_progress ==
    /\ Deliver("progress")
    /\ window' = [window EXCEPT !.progress_bar = Percent(Head(events).done, Head(events).total)]

MainWindow_on_translate_finished ==
    /\ Deliver("finished_with_result")
    /\ window' = [window EXCEPT !.translated_paragraphs = Head(events).result,
                                !.right_list = Head(events).result]

MainWindow_on_worker_finished ==
    /\ Deliver("finished")
    /\ window' = [window EXCEPT !.buttons_enabled = TRUE]

MainNext ==
    \/ \E doc \in Docs : MainWindow_on_open_file_clicked(doc)
    \/ MainWindow_on_translate_clicked
    \/ MainWindow_on_refresh_clicked
    \/ \E code \in ComboCodes : MainWindow_on_language_changed(code)
    \/ ToggleAutoTranslate
    \/ \E w \in DOMAIN threads : Worker_run(w)
    \/ \E w \in DOMAIN threads : Worker_item(w)
    \/ \E w \in DOMAIN threads : Worker_result(w)
    \/ \E w \in DOMAIN threads : Worker_finished(w)
    \/ \E w \in DOMAIN threads : Worker_destroyed(w)
    \/ MainWindow_on_translate_progress
    \/ MainWindow_on_translate_finished
    \/ MainWindow_on_worker_finished

----------------------------------------------------------------------------
(* settings_dialog.py and on_settings_clicked: the settings dialog of a      *)
(* window, from its opening to its end.  The dialog is modal; it edits the    *)
(* AppConfig object of the window (self.config = config).                     *)

\* what the user can have in the form
Forms ==
    { AppConfig(provider, appid, key, YoudaoAppKey, secret) :
        provider \in {"google", "baidu", "youdao"},
        appid \in {<<>>, BaiduAppId},
        key \in {<<>>, <<" ">>, BaiduKey},
        secret \in {<<>>, YoudaoSecret} }

\* _load_to_ui: the combo keeps its first item when the provider is none of its items
load_to_ui(config) ==
    [config EXCEPT !.provider =
        IF config.provider \in {"google", "baidu", "youdao"} THEN config.provider ELSE "google"]

\* the checks of _on_save_clicked before anything is stored
FormIsComplete(form) ==
    /\ form.provider = "baidu" => (~IsBlank(form.baidu_appid) /\ ~IsBlank(form.baidu_key))
    /\ form.provider = "youdao" =>
          (~IsBlank(form.youdao_app_key) /\ ~IsBlank(form.youdao_app_secret))

\* the five assignments of _on_save_clicked
FormToConfig(form) ==
    AppConfig(form.provider, Strip(form.baidu_appid), Strip(form.baidu_key),
              Strip(form.youdao_app_key), Strip(form.youdao_app_secret))

\* on_settings_clicked up to dlg.exec(): the dialog is built and shown
MainWindow_on_settings_clicked ==
    /\ ~window.aborted
    /\ settings.phase = "closed"
    /\ settings' = [settings EXCEPT !.phase = "open", !.form = load_to_ui(window.config),
                                    !.opened_with = window.config, !.result = "", !.box = ""]
    /\ UNCHANGED <<window, threads, events, worker_vars, applied, selection>>

\* the user changes the form
SettingsDialog_edit(form) ==
    /\ settings.phase = "open"
    /\ form # settings.form
    /\ settings' = [settings EXCEPT !.form = form]
    /\ UNCHANGED <<window, threads, events, worker_vars, applied, selection>>

\* Save with a form that lacks a credential: a warning, nothing stored
SettingsDialog_on_save_clicked_incomplete ==
    /\ settings.phase = "open"
    /\ ~FormIsComplete(settings.form)
    /\ settings' = [settings EXCEPT !.box = "missing credentials"]
    /\ UNCHANGED <<window, threads, events, worker_vars, applied, selection>>

\* Save, and config.save() raises: the fields are assigned, an error box is
\* shown and the dialog stays open
SettingsDialog_on_save_clicked_write_fails ==
    /\ settings.phase = "open"
    /\ FormIsComplete(settings.form)
    /\ window' = [window EXCEPT !.config = FormToConfig(settings.form)]
    /\ settings' = [settings EXCEPT !.box = "save failed"]
    /\ UNCHANGED <<threads, events, worker_vars, applied, selection>>

\* Save, the file is written and the dialog is accepted; on_settings_clicked
\* goes on: the engine label is updated and, with auto-translate ticked and a
\* document loaded, a translation is started
SettingsDialog_on_save_clicked_accepted ==
    /\ settings.phase = "open"
    /\ FormIsComplete(settings.form)
    /\ LET saved == [window EXCEPT !.config = FormToConfig(settings.form)]
           to == IF saved.auto_translate /\ saved.original_paragraphs # <<>>
                 THEN translate_clicked(saved, threads)
                 ELSE [window |-> saved, threads |-> threads]
       IN /\ Len(to.threads) <= MaxWorkers
          /\ window' = to.window
          /\ threads' = to.threads
          /\ settings' = [settings EXCEPT !.phase = "closed", !.result = "Accepted",
                                          !.engine_label = EngineLabel(saved.config.provider)]
    /\ UNCHANGED <<events, worker_vars, applied, selection>>

\* Cancel: the dialog is rejected and on_settings_clicked does nothing more
SettingsDialog_reject ==
    /\ settings.phase = "open"
    /\ settings' = [settings EXCEPT !.phase = "closed", !.result = "Rejected"]
    /\ UNCHANGED <<window, threads, events, worker_vars, applied, selection>>

SettingsNext ==
    \/ MainWindow_on_settings_clicked
    \/ \E form \in Forms : SettingsDialog_edit(form)
    \/ SettingsDialog_on_save_clicked_incomplete
    \/ SettingsDialog_on_save_clicked_write_fails
    \/ SettingsDialog_on_save_clicked_accepted
    \/ SettingsDialog_reject

----------------------------------------------------------------------------
(* main.py: the current rows of the two lists and the handlers that keep     *)
(* them together.  currentRowChanged is emitted, and its handler called,     *)
(* inside the call that changes the row.                                     *)

Other(side) == IF side = "left" THEN "right" ELSE "left"

CountOf(sel, side) == IF side = "left" THEN sel.left_count ELSE sel.right_count
RowOfList(sel, side) == IF side = "left" THEN sel.left_row ELSE sel.right_row

\* the list `side` with its current row set to `row`
WithRow(sel, side, row) ==
    IF side = "left" THEN [sel EXCEPT !.left_row = row] ELSE [sel EXCEPT !.right_row = row]

\* the handler on top of the stack
Top == selection.stack[Len(selection.stack)]

\* the stack with its top frame replaced
ReplaceTop(stack, frame) == [stack EXCEPT ![Len(stack)] = frame]

Pop(stack) == SubSeq(stack, 1, Len(stack) - 1)

\* the current row of a list changes (a click, a key, setCurrentRow from
\* on_translate_finished) while no handler runs; its handler is called
RowChanged(side, row) ==
    /\ selection.stack = <<>>
    /\ row \in 0..(CountOf(selection, side) - 1)
    /\ row # RowOfList(selection, side)
    /\ selection' = [WithRow(selection, side, row) EXCEPT
                        !.stack = <<Frame(side, row, "guard", FALSE)>>,
                        !.mirrored = 0,
                        !.last = [side |-> side, row |-> row]]
    /\ UNCHANGED <<worker_vars, applied, window_vars, settings>>

\* _fill_list: the list is cleared and gets n rows; a list that had a current
\* row reports row -1
fill_list(side, n) ==
    /\ selection.stack = <<>>
    /\ LET had == RowOfList(selection, side)
           filled == IF side = "left" THEN [selection EXCEPT !.left_count = n, !.left_row = -1]
                     ELSE [selection EXCEPT !.right_count = n, !.right_row = -1]
       IN selection' = [filled EXCEPT
                           !.stack = IF had # -1 THEN <<Frame(side, -1, "guard", FALSE)>> ELSE <<>>,
                           !.mirrored = 0,
                           !.last = [side |-> side, row |-> -1]]
    /\ UNCHANGED <<worker_vars, applied, window_vars, settings>>

\* if self._sync_selecting: return / self._sync_selecting = True
Handler_guard ==
    /\ selection.stack # <<>> /\ Top.at = "guard"
    /\ selection' =
          IF selection.sync_selecting
          THEN [selection EXCEPT !.stack = Pop(@)]
          ELSE [selection EXCEPT !.sync_selecting = TRUE,
                                 !.stack = ReplaceTop(@, [Top EXCEPT !.at = "try"])]
    /\ UNCHANGED <<worker_vars, applied, window_vars, settings>>

\* if 0 <= row < other.count(): other.setCurrentRow(row), which calls the
\* other list's handler when the row of that list changes
Handler_mirror ==
    /\ selection.stack # <<>> /\ Top.at = "try"
    /\ LET other == Other(Top.side) IN
       selection' =
          IF 0 <= Top.row /\ Top.row < CountOf(selection, other)
          THEN IF RowOfList(selection, other) # Top.row
               THEN [WithRow(selection, other, Top.row) EXCEPT
                        !.mirrored = @ + 1,
                        !.stack = Append(ReplaceTop(@, [Top EXCEPT !.at = "scroll"]),
                                         Frame(other, Top.row, "guard", FALSE))]
               ELSE [selection EXCEPT !.stack = ReplaceTop(@, [Top EXCEPT !.at = "scroll"])]
          ELSE [selection EXCEPT !.stack = ReplaceTop(@, [Top EXCEPT !.at = "finally"])]
    /\ UNCHANGED <<worker_vars, applied, window_vars, settings>>

\* other.scrollToItem(other.item(row)): it returns or it raises
Handler_scroll(raised) ==
    /\ selection.stack # <<>> /\ Top.at = "scroll"
    /\ selection' = [selection EXCEPT
                        !.stack = ReplaceTop(@, [Top EXCEPT !.at = "finally", !.raised = raised])]
    /\ UNCHANGED <<worker_vars, applied, window_vars, settings>>

\* the flag after a handler that resets it only on the normal path
FlagWithoutFinally(frame) == frame.raised

\* finally: self._sync_selecting = False
FlagAfterFinally(frame) == FALSE

\* the finally clause runs and the handler is left
Handler_finally ==
    /\ selection.stack # <<>> /\ Top.at = "finally"
    /\ selection' = [selection EXCEPT !.sync_selecting = FlagAfterFinally(Top),
                                      !.stack = Pop(@)]
    /\ UNCHANGED <<worker_vars, applied, window_vars, settings>>

SelectNext ==
    \/ \E side \in {"left", "right"}, row \in 0..(MaxRows - 1) : RowChanged(side, row)
    \/ \E side \in {"left", "right"}, n \in 0..MaxRows : fill_list(side, n)
    \/ Handler_guard
    \/ Handler_mirror
    \/ \E raised \in BOOLEAN : Handler_scroll(raised)
    \/ Handler_finally

----------------------------------------------------------------------------

\* the window right after MainWindow.__init__, whatever AppConfig.load() found
MainInit ==
    /\ window \in { MainWindow(config) : config \in Configs }
    /\ threads = <<>>
    /\ events = <<>>
    /\ settings = NoDialog(window.config)
    /\ selection = NoSelection
    /\ applied = NotApplied
    /\ translator = NoTranslator
    /\ task = [paragraphs |-> <<>>, target_lang |-> ""]
    /\ pc = "idle"
    /\ results = <<>>
    /\ inflight = NoRequest
    /\ net = <<>>
    /\ cb_calls = <<>>
    /\ queue = <<>>
    /\ log = <<>>
    /\ progress_bar = 0
    /\ translated_paragraphs = <<>>
    /\ controls_enabled = TRUE
    /\ error_boxes = <<>>

MainSpec == MainInit /\ [][MainNext]_vars

SettingsSpec == MainInit /\ [][SettingsNext]_vars

SelectSpec == Init /\ [][SelectNext]_vars

----------------------------------------------------------------------------
(* Vocabulary of the properties *)

\* every signal the worker has emitted so far, in emission order
Emitted == log \o queue

CountSig(seq, sig) == Cardinality({ k \in DOMAIN seq : seq[k].sig = sig })

\* translate_many has returned its list to run()
Returned == translator.kind \in {"google", "baidu", "youdao"} /\ pc \in {"exit", "done"}

\* translate_many raised and run() caught it
Raised == translator.kind = "base" /\ pc \in {"exit", "done"}

\* the batch is over and the main thread has handled every signal
Settled == pc = "done" /\ queue = <<>>

Total == Len(task.paragraphs)

\* the network calls made for item i
CallsOf(i) == { k \in DOMAIN net : net[k].item = i }

\* the progress calls a loop that has completed n items of N must have made
ExpectedProgress(n, N) == [k \in 1..n |-> <<k, N>>]

----------------------------------------------------------------------------
(* Properties *)

FailedItem(i) ==
    \/ IsBlank(task.paragraphs[i])
    \/ \E k \in CallsOf(i) : net[k].outcome # "ok"

\* C2: in all three variants a failed item (blank input, transport error,
\* malformed response, vendor error, empty upstream result) resolves to its own
\* input text, never to an empty or missing value, and the failure does not
\* raise out of translate_many (the run does not end with the failed signal).
C2_FailedItemFallsBack ==
    /\ \A i \in 1..Len(results) : FailedItem(i) => results[i] = task.paragraphs[i]
    /\ translator.kind \in {"google", "baidu", "youdao"} => CountSig(Emitted, "failed") = 0

\* C3: translate_many calls the progress callback once after each completed
\* item, with (1,N), (2,N), ... in that order, and by the time it returns it
\* has made exactly N calls, the last one (N,N).
C3_ProgressCalls ==
    /\ translator.kind \in {"google", "baidu", "youdao"} =>
          cb_calls = ExpectedProgress(Len(results), Total)
    /\ Returned => Len(cb_calls) = Total
    /\ (Returned /\ Total > 0) => cb_calls[Len(cb_calls)] = <<Total, Total>>

\* C3 witness: a batch of three items has returned with its three calls made.
C3_Witness ==
    Returned /\ Total = 3 /\ cb_calls = << <<1, 3>>, <<2, 3>>, <<3, 3>> >>

\* C4: once translate_many has returned, the worker has emitted exactly one
\* finished_with_result signal, carrying the list translate_many returned,
\* and no failed signal; before that it has emitted neither; and when the
\* batch is settled the main thread has received exactly that one result.
C4_OneSuccessEvent ==
    /\ translator.kind \in {"google", "baidu", "youdao"} =>
          /\ CountSig(Emitted, "failed") = 0
          /\ CountSig(Emitted, "finished_with_result") = IF Returned THEN 1 ELSE 0
          /\ \A k \in DOMAIN Emitted :
                Emitted[k].sig = "finished_with_result" =>
                    Emitted[k].result = results /\ Len(Emitted[k].result) = Total
    /\ (Returned /\ Settled) =>
          /\ CountSig(log, "finished_with_result") = 1
          /\ translated_paragraphs = results

\* C4 witness: a settled batch of three items whose result was delivered.
C4_Witness ==
    Returned /\ Settled /\ Total = 3 /\ translated_paragraphs = results

\* C5: when translate_many raises, the worker emits exactly one failed signal
\* carrying str(e), never a finished_with_result signal (so no partial result
\* reaches the caller), and exactly one finished notification.
C5_OneFailureEvent ==
    /\ translator.kind = "base" =>
          /\ CountSig(Emitted, "finished_with_result") = 0
          /\ translated_paragraphs = <<>>
          /\ CountSig(Emitted, "failed") = IF Raised THEN 1 ELSE 0
          /\ CountSig(Emitted, "finished") = IF pc = "done" THEN 1 ELSE 0
          /\ \A k \in DOMAIN Emitted :
                Emitted[k].sig = "failed" => Emitted[k].msg = ExcStr(NotImplementedError)
    /\ (Raised /\ Settled) =>
          /\ CountSig(log, "failed") = 1
          /\ CountSig(log, "finished") = 1
          /\ error_boxes = <<ExcStr(NotImplementedError)>>

\* C5 witness: a batch with items whose translate_many raised, settled.
C5_Witness ==
    Raised /\ Settled /\ Total > 0 /\ Len(error_boxes) = 1

\* a terminal signal: the success or the failure event
IsTerminal(ev) == ev.sig \in {"finished_with_result", "failed"}

\* C6: the finished notification always follows the batch's terminal event and
\* is never followed by one, in emission order and in the order the slots run;
\* once a terminal event is emitted the thread can always go on to emit
\* finished, a queued signal can always be handed to its slot, and a settled
\* batch has run on_worker_finished exactly once, as its last slot.
C6_FinishedFollowsTerminal ==
    /\ \A k \in DOMAIN Emitted :
          Emitted[k].sig = "finished" =>
              /\ \E j \in 1..(k - 1) : IsTerminal(Emitted[j])
              /\ k = Len(Emitted)
    /\ \A k \in DOMAIN log :
          log[k].sig = "finished" => \E j \in 1..(k - 1) : IsTerminal(log[j])
    /\ pc = "exit" => (CountSig(Emitted, "finished") = 0 /\ ENABLED ThreadFinished)
    /\ pc = "done" => CountSig(Emitted, "finished") = 1
    /\ queue # <<>> =>
          ENABLED (on_translate_progress \/ on_translate_finished
                   \/ on_translate_failed \/ on_worker_finished)
    /\ Settled =>
          /\ CountSig(log, "finished") = 1
          /\ log[Len(log)].sig = "finished"
          /\ controls_enabled

\* C6 witnesses: on_worker_finished has run after a success, and after a failure.
C6_Witness ==
    /\ Settled /\ controls_enabled
    /\ Returned /\ Total = 2
    /\ log[Len(log)].sig = "finished" /\ log[Len(log) - 1].sig = "finished_with_result"

\* the progress events emitted so far
ProgressDone == [k \in 1..CountSig(Emitted, "progress") |->
                    Emitted[CHOOSE j \in DOMAIN Emitted :
                        /\ Emitted[j].sig = "progress"
                        /\ Cardinality({ m \in 1..j : Emitted[m].sig = "progress" }) = k].done]

\* the number of progress events whose completed value equals the batch total
ReachedTotal(seq) ==
    Cardinality({ k \in DOMAIN seq : seq[k].sig = "progress" /\ seq[k].done = Total })

\* the terminal event has been emitted
TerminalEmitted == \E k \in DOMAIN Emitted : IsTerminal(Emitted[k])

\* C7 as stated: for every batch, also an empty one and one that fails,
\* completed never decreases, no progress event follows the terminal event,
\* and by the time the terminal event is emitted completed has reached total
\* exactly once.
C7_Original ==
    /\ \A k \in DOMAIN ProgressDone : k > 1 => ProgressDone[k] >= ProgressDone[k - 1]
    /\ \A k \in DOMAIN Emitted :
          IsTerminal(Emitted[k]) =>
              \A j \in (k + 1)..Len(Emitted) : Emitted[j].sig # "progress"
    /\ ReachedTotal(Emitted) <= 1
    /\ TerminalEmitted => ReachedTotal(Emitted) = 1

\* C7 as amended: completed is strictly increasing by 1 from 1 over the batch,
\* no progress event follows the terminal event, and by the time the terminal
\* event is emitted completed has reached total exactly once when the batch
\* has at least one item and ends with the success event, and never when the
\* batch is empty or ends with the failure event.
C7_ProgressMonotone ==
    /\ \A k \in DOMAIN ProgressDone : ProgressDone[k] = k /\ k <= Total
    /\ \A k \in DOMAIN Emitted :
          IsTerminal(Emitted[k]) =>
              \A j \in (k + 1)..Len(Emitted) : Emitted[j].sig # "progress"
    /\ \A k \in DOMAIN log :
          IsTerminal(log[k]) => \A j \in (k + 1)..Len(log) : log[j].sig # "progress"
    /\ ReachedTotal(Emitted) <= 1
    /\ TerminalEmitted =>
          ReachedTotal(Emitted) = IF Returned /\ Total >= 1 THEN 1 ELSE 0

\* C7 witness: a settled batch of three items: three progress slots ran, the
\* last with completed = total, then the result.
C7_Witness ==
    /\ Settled /\ Returned /\ Total = 3
    /\ ReachedTotal(log) = 1
    /\ log[3].sig = "progress" /\ log[3].done = 3 /\ log[4].sig = "finished_with_result"

\* C8: in every variant an item whose stripped text is empty is never sent to
\* the network (no call is recorded for it and the worker never blocks on
\* it), its slot holds the item unchanged, and it is counted by one progress
\* call like any other item.
C8_BlankNeverSent ==
    /\ \A k \in DOMAIN net : Strip(net[k].q) # <<>>
    /\ pc = "net" => Strip(task.paragraphs[Len(results) + 1]) # <<>>
    /\ \A i \in 1..Len(results) :
          Strip(task.paragraphs[i]) = <<>> =>
              /\ CallsOf(i) = {}
              /\ results[i] = task.paragraphs[i]
              /\ Len(cb_calls) >= i /\ cb_calls[i] = <<i, Total>>

\* C8 witness: a returned batch holding the empty text, a whitespace-only
\* text and a text with content, after a call for the latter only.
C8_Witness ==
    /\ Returned /\ Total = 3 /\ Len(net) = 1
    /\ \E i, j \in 1..3 : task.paragraphs[i] = <<>> /\ task.paragraphs[j] = <<" ">>

\* the call made for item i ended in a transport exception or a vendor error
ErrorOn(i) ==
    \E k \in CallsOf(i) : net[k].outcome \in {"transport_error", "vendor_error"}

\* C9: a transport exception or vendor error on item i leaves slot i holding
\* the source text and touches nothing else: the loop can go on, every later
\* item gets its own slot and progress call (its translation when its call
\* produced one, its own text when it is blank or its call failed the same
\* way), and the run ends with the success event, never with the failure event.
C9_ErrorIsolated ==
    \A i \in 1..Len(results) :
        ErrorOn(i) =>
            /\ results[i] = task.paragraphs[i]
            /\ CountSig(Emitted, "failed") = 0
            /\ (pc = "many" /\ Len(results) < Total) =>
                  \/ ENABLED ItemLocal
                  \/ ENABLED (\E salt \in Salts, curtime \in Curtimes : ItemSend(salt, curtime))
            /\ (pc = "many" /\ Len(results) = Total) => ENABLED RunReturn
            /\ \A j \in (i + 1)..Len(results) :
                  /\ cb_calls[j] = <<j, Total>>
                  /\ \A k \in CallsOf(j) :
                        net[k].outcome = "ok" => results[j] = net[k].offer
                  /\ (IsBlank(task.paragraphs[j]) \/ ErrorOn(j)) =>
                        results[j] = task.paragraphs[j]
            /\ pc \in {"exit", "done"} =>
                  /\ Len(results) = Total
                  /\ CountSig(Emitted, "finished_with_result") = 1
            /\ Settled => translated_paragraphs = results

\* C9 witness: the first call of a batch raised, a later call translated its
\* item, and the result was delivered.
C9_Witness ==
    /\ Settled /\ Total = 3
    /\ \E k \in CallsOf(1) : net[k].outcome = "transport_error"
    /\ \E k \in CallsOf(3) : net[k].outcome = "ok"
    /\ translated_paragraphs[1] = task.paragraphs[1]
    /\ translated_paragraphs[3] = <<"x">>

\* the translator is a GoogleWebTranslator whose import failed
Degraded == translator.kind = "google" /\ ~translator.ready

\* C10: a GoogleWebTranslator whose import failed has its ready flag false and
\* the import error recorded (and one whose import succeeded has neither);
\* in that mode no call ever reaches the network, every slot holds its input
\* unchanged, progress runs 1..N, and translate_many returns the batch as it
\* was given.
C10_DegradedPassthrough ==
    /\ translator.kind = "google" => (translator.ready <=> translator.err = "None")
    /\ Degraded =>
          /\ translator.err = "ImportError"
          /\ net = <<>> /\ pc # "net" /\ inflight.endpoint = NoRequest.endpoint
          /\ results = SubSeq(task.paragraphs, 1, Len(results))
          /\ cb_calls = ExpectedProgress(Len(results), Total)
          /\ CountSig(Emitted, "failed") = 0
          /\ Returned => (results = task.paragraphs /\ Len(cb_calls) = Total)
          /\ Settled => translated_paragraphs = task.paragraphs

\* C10 witness: the degraded translator has returned a batch of the shape
\* [text, "", text] unchanged after three progress calls.
C10_Witness ==
    /\ Degraded /\ Settled
    /\ task.paragraphs = << <<" ", "a">>, <<>>, <<" ", "a">> >>
    /\ translated_paragraphs = task.paragraphs
    /\ cb_calls = << <<1, 3>>, <<2, 3>>, <<3, 3>> >>

\* C11 as stated: every network call of every variant carries the timeout of
\* 15, and a worker blocked in a call can always go on once the call ends.
C11_EveryCallHasTimeout ==
    pc = "net" =>
        /\ inflight.timeout = Given(15)
        /\ ENABLED (\E reply \in Replies(translator) : ItemReceive(reply))

\* the fields of the form a request carries
Fields(req) == DOMAIN req.data

IsDigit(c) == c \in {"0", "1", "2", "3", "4", "5", "6", "7", "8", "9"}

\* C15: whenever the Baidu variant is in a network call, the request carries
\* exactly the fields q, from, to, appid, salt, sign; q is the item's text as
\* given; the salt is a string of 6 decimal digits without a leading zero;
\* the sign is the MD5 digest of appid + text + salt + key in that order,
\* computed with the very salt the request carries.
C15_BaiduRequest ==
    (pc = "net" /\ translator.kind = "baidu") =>
        LET d == inflight.data IN
        /\ inflight.endpoint = BaiduEndpoint
        /\ Fields(inflight) = {"q", "from", "to", "appid", "salt", "sign"}
        /\ d.q = task.paragraphs[Len(results) + 1]
        /\ d.appid = BaiduAppId
        /\ Len(d.salt) = 6 /\ d.salt[1] # "0" /\ \A k \in 1..6 : IsDigit(d.salt[k])
        /\ d.sign.alg = "md5"
        /\ d.sign.of = BaiduAppId \o d.q \o d.salt \o BaiduKey

\* C15 witness: a Baidu call in flight for a text with content, salted 999999.
C15_Witness ==
    /\ pc = "net" /\ translator.kind = "baidu"
    /\ inflight.data.q = <<" ", "a">>
    /\ inflight.data.salt = <<"9", "9", "9", "9", "9", "9">>

\* the row of the language table for a canonical code, 0 when it has none
RowOf(generic) ==
    IF \E k \in DOMAIN LANG_ITEMS : LANG_ITEMS[k].generic = generic
    THEN CHOOSE k \in DOMAIN LANG_ITEMS :
            /\ LANG_ITEMS[k].generic = generic
            /\ \A j \in 1..(k - 1) : LANG_ITEMS[j].generic # generic
    ELSE 0

\* C18: in every request of the two signed variants, `from` is "auto" and `to`
\* is the code the language table gives for the batch's target in the column
\* of that vendor (the target itself when the table has no row for it).
C18_TargetMapped ==
    (pc = "net" /\ translator.kind \in {"baidu", "youdao"}) =>
        LET row == RowOf(task.target_lang) IN
        /\ inflight.data.from = "auto"
        /\ inflight.data.to =
              IF row = 0 THEN task.target_lang
              ELSE IF translator.kind = "baidu" THEN LANG_ITEMS[row].baidu
              ELSE LANG_ITEMS[row].youdao

\* C18 witness: a Youdao call for target zh-CN carries zh-CHS, not zh-CN or zh.
C18_Witness ==
    /\ pc = "net" /\ translator.kind = "youdao"
    /\ task.target_lang = "zh-CN" /\ inflight.data.to = "zh-CHS"

IsProgress(ev) == ev.sig = "progress"

\* the (completed, total) pairs of the progress events of a signal sequence
ProgressPairs(seq) ==
    LET evs == SelectSeq(seq, IsProgress) IN
    [k \in DOMAIN evs |-> <<evs[k].done, evs[k].total>>]

\* C20: at every moment the progress events the worker has emitted are, one for
\* one and in the same order, the progress_cb calls translate_many has made,
\* with the same values (nothing dropped, merged, reordered or held back);
\* the slots have run for a prefix of them, and for all of them once settled.
C20_ProgressForwarded ==
    /\ ProgressPairs(Emitted) = cb_calls
    /\ ProgressPairs(log) = SubSeq(cb_calls, 1, Len(ProgressPairs(log)))
    /\ Settled => ProgressPairs(log) = cb_calls

\* C20 witness: in the middle of a batch of three, two callbacks were made and
\* both events have already reached on_translate_progress.
C20_Witness ==
    /\ pc \in {"many", "net"} /\ Total = 3 /\ Len(cb_calls) = 2
    /\ ProgressPairs(log) = << <<1, 3>>, <<2, 3>> >>

\* the argument and value of the recorded call
ArgText == applied.args[1]
ArgReply == applied.args[2]

\* C12: BaiduTranslator._translate_once, for a text with content: a response
\* object that has the key error_code, whatever its value, gives the input
\* text; otherwise the dst of the first trans_result entry is the result when
\* trans_result is there and not empty and that dst is there and not empty,
\* and the input text in every other case; a transport or parse exception
\* gives the input text.
C12_BaiduResponse ==
    (applied.fn = "BaiduTranslator._translate_once" /\ ~IsBlank(ArgText)) =>
        LET d == ArgReply.data
            parsed == ArgReply.outcome = "json"
            usable == /\ parsed
                      /\ ~d.error_code.present
                      /\ d.has_trans_result
                      /\ Len(d.trans_result) >= 1
                      /\ d.trans_result[1].has_dst
                      /\ d.trans_result[1].dst # <<>>
        IN
        /\ ~parsed => applied.out = ArgText
        /\ (parsed /\ d.error_code.present) => applied.out = ArgText
        /\ applied.out = IF usable THEN d.trans_result[1].dst ELSE ArgText

\* C12 witness: the response has error_code "0" next to a translation, and
\* the input text comes back.
C12_Witness ==
    /\ applied.fn = "BaiduTranslator._translate_once"
    /\ ArgText = <<" ", "a">>
    /\ ArgReply.outcome = "json"
    /\ ArgReply.data.error_code = ErrorCode(TRUE, "str", <<"0">>)
    /\ ArgReply.data.trans_result # <<>>
    /\ applied.out = ArgText

\* C13: YoudaoTranslator._translate_once, for a text with content: the result
\* is the first entry of the translation list exactly when the response is an
\* object whose errorCode is the string "0" and whose translation list is
\* there, not empty and starts with a non-empty entry; in every other case
\* (errorCode missing, the number 0, another value, an exception) it is the
\* input text.
C13_YoudaoResponse ==
    (applied.fn = "YoudaoTranslator._translate_once" /\ ~IsBlank(ArgText)) =>
        LET d == ArgReply.data
            success == /\ ArgReply.outcome = "json"
                       /\ d.errorCode.present
                       /\ d.errorCode.type = "str"
                       /\ d.errorCode.value = <<"0">>
        IN
        /\ ~success => applied.out = ArgText
        /\ success =>
              applied.out =
                 IF d.has_translation /\ Len(d.translation) >= 1 /\ d.translation[1] # <<>>
                 THEN d.translation[1] ELSE ArgText

\* C13 witness: errorCode is the number 0 next to a translation, and the input
\* text comes back.
C13_Witness ==
    /\ applied.fn = "YoudaoTranslator._translate_once"
    /\ ArgText = <<" ", "a">>
    /\ ArgReply.outcome = "json"
    /\ ArgReply.data.errorCode = ErrorCode(TRUE, "int", <<"0">>)
    /\ ArgReply.data.translation # <<>>
    /\ applied.out = ArgText

\* the number a string of decimal digits stands for
RECURSIVE DecimalValue(_)
DecimalValue(digits) ==
    IF digits = <<>> THEN 0
    ELSE 10 * DecimalValue(SubSeq(digits, 1, Len(digits) - 1))
         + (CHOOSE d \in 0..9 : Digit(d) = digits[Len(digits)])

\* C14: _truncate returns a text of at most 20 characters as it is; a longer
\* text becomes its first 10 characters, then its length in decimal (no
\* leading zero), then its last 10 characters; the alphabet of 26 letters
\* becomes "abcdefghij" "26" "qrstuvwxyz".
C14_Truncate ==
    applied.fn = "YoudaoTranslator._truncate" =>
        LET q == ArgText
            n == Len(q)
            out == applied.out
            mid == SubSeq(out, 11, Len(out) - 10)
        IN
        /\ n <= 20 => out = q
        /\ n > 20 =>
              /\ Len(out) > 20
              /\ SubSeq(out, 1, 10) = SubSeq(q, 1, 10)
              /\ SubSeq(out, Len(out) - 9, Len(out)) = SubSeq(q, n - 9, n)
              /\ \A k \in DOMAIN mid : IsDigit(mid[k])
              /\ mid[1] # "0"
              /\ DecimalValue(mid) = n
        /\ q = Letters =>
              out = <<"a", "b", "c", "d", "e", "f", "g", "h", "i", "j", "2", "6",
                      "q", "r", "s", "t", "u", "v", "w", "x", "y", "z">>

\* C14 witness: a text of 21 characters has been cut to 10 + "21" + 10.
C14_Witness ==
    /\ applied.fn = "YoudaoTranslator._truncate"
    /\ Len(ArgText) = 21
    /\ Len(applied.out) = 22
    /\ SubSeq(applied.out, 11, 12) = <<"2", "1">>

\* C16: the request YoudaoTranslator._translate_once posts for a text with
\* content: q is the whole text, signType is v3, the salt and curtime fields
\* are the values drawn for this call, and sign is the SHA-256 digest of
\* appKey + truncation of the text + that salt + that curtime + appSecret.
C16_YoudaoRequest ==
    applied.fn = "YoudaoTranslator._translate_once: post" =>
        LET text == applied.args[1]
            d == applied.out.data
            n == Len(text)
            signingInput ==
                IF n <= 20 THEN text
                ELSE SubSeq(text, 1, 10) \o Str(n) \o SubSeq(text, n - 9, n)
        IN
        /\ d.q = text
        /\ d.signType = "v3"
        /\ d.appKey = YoudaoAppKey
        /\ d.salt = applied.args[3]
        /\ d.curtime = applied.args[4]
        /\ d.sign.alg = "sha256"
        /\ d.sign.of = YoudaoAppKey \o signingInput \o d.salt \o d.curtime \o YoudaoSecret

\* C16 witness: the request for the alphabet: q has all 26 letters, the signed
\* string has the 22 characters of the truncation between the key and the salt.
C16_Witness ==
    /\ applied.fn = "YoudaoTranslator._translate_once: post"
    /\ applied.out.data.q = Letters
    /\ Len(applied.out.data.sign.of) =
          Len(YoudaoAppKey) + 22 + Len(applied.out.data.salt)
          + Len(applied.out.data.curtime) + Len(YoudaoSecret)

\* C17: get_baidu_lang and get_youdao_lang return, for a canonical code of the
\* table, that row's code of the vendor asked for, and for any other code the
\* code itself.
C17_LanguageLookup ==
    applied.fn \in {"get_baidu_lang", "get_youdao_lang"} =>
        LET generic == applied.args[1]
            row == RowOf(generic)
        IN
        applied.out =
            IF row = 0 THEN generic
            ELSE IF applied.fn = "get_baidu_lang" THEN LANG_ITEMS[row].baidu
            ELSE LANG_ITEMS[row].youdao

\* C17 witness: Japanese is "jp" for Baidu.
C17_Witness ==
    /\ applied.fn = "get_baidu_lang"
    /\ applied.args[1] = "ja"
    /\ applied.out = "jp"

\* C19: every TranslateWorker instance is started once and executes run(),
\* hence its batch, at most once; the window's current worker is the instance
\* created last, so each further batch belongs to a further instance.
C19_OneBatchPerWorker ==
    /\ \A w \in DOMAIN threads :
          /\ threads[w].starts = 1
          /\ threads[w].runs <= 1
          /\ threads[w].pc # "started" => threads[w].runs = 1
    /\ window.current_worker = Len(threads)

\* C19 witness: two batches have run to the end, each in its own instance.
C19_Witness ==
    /\ Len(threads) = 2
    /\ \A w \in DOMAIN threads : threads[w].pc = "done" /\ threads[w].runs = 1
    /\ events = <<>>

\* the text a request in flight asks to translate
RequestText(req) ==
    IF req.endpoint = "deep_translator.GoogleTranslator" THEN req.data.text ELSE req.data.q

\* C22: in one batch the calls go out one at a time and in input order: when a
\* request is in flight, it is for the first item that has no result yet,
\* every earlier item has its result and has had its progress callback, and
\* every earlier call was for an earlier item; the calls recorded are in
\* strictly increasing item order.
C22_Sequential ==
    /\ Len(results) = Len(cb_calls)
    /\ \A k \in 1..(Len(net) - 1) : net[k].item < net[k + 1].item
    /\ pc = "net" =>
          /\ Len(results) < Total
          /\ RequestText(inflight) = task.paragraphs[Len(results) + 1]
          /\ \A k \in DOMAIN net : net[k].item <= Len(results)
    /\ pc # "net" => inflight.endpoint = NoRequest.endpoint

\* C22 witness: the call for item 3 is in flight after the calls for items 1
\* and 2 have ended and both callbacks were made.
C22_Witness ==
    /\ pc = "net" /\ Len(results) = 2 /\ Len(cb_calls) = 2
    /\ Len(net) = 2 /\ net[1].item = 1 /\ net[2].item = 2

\* C23: translate_many with a progress callback that raises on some of its
\* calls, whichever they are: no exception leaves translate_many, the callback
\* is called once for every item, in order, with (i, total), and the list
\* returned has one result per text, the same as with a callback that never
\* raises.
C23_CallbackFailureIgnored ==
    applied.fn = "translate_many" =>
        LET self == applied.args[1]
            texts == applied.args[2]
            reply == applied.args[3]
            out == applied.out
        IN
        /\ ~out.raised
        /\ out.calls = [k \in 1..Len(texts) |-> <<k, Len(texts)>>]
        /\ Len(out.results) = Len(texts)
        /\ out.results = translate_many(self, texts, "zh-CN", reply, {}).results

\* C23 witness: a batch of three whose callback raised on the first call (and
\* on later ones): three calls were made and three results returned.
C23_Witness ==
    /\ applied.fn = "translate_many"
    /\ Len(applied.args[2]) = 3
    /\ {1, 3} \subseteq applied.args[4]
    /\ Len(applied.out.calls) = 3
    /\ Len(applied.out.results) = 3
    /\ applied.out.results[1] = <<"x">>

\* the characters of a text that are not whitespace, in order
RECURSIVE Ink(_)
Ink(s) ==
    IF s = <<>> THEN <<>>
    ELSE (IF Head(s) \in Whitespace THEN <<>> ELSE <<Head(s)>>) \o Ink(Tail(s))

\* the texts of a list one after the other
RECURSIVE Joined(_)
Joined(list) == IF list = <<>> THEN <<>> ELSE Head(list) \o Joined(Tail(list))

\* C27: every paragraph split_into_paragraphs returns is non-empty and starts
\* and ends with a character that is not whitespace; the paragraphs hold the
\* non-whitespace characters of the text, all of them and in the order of the
\* text; no paragraph holds a blank line; a text without such characters
\* gives the empty list.
C27_Paragraphs ==
    applied.fn = "split_into_paragraphs" =>
        LET text == applied.args[1]
            out == applied.out
        IN
        /\ \A k \in DOMAIN out :
              /\ out[k] # <<>>
              /\ out[k][1] \notin Whitespace
              /\ out[k][Len(out[k])] \notin Whitespace
              /\ \A j \in 1..(Len(out[k]) - 1) : ~(out[k][j] = "\n" /\ out[k][j + 1] = "\n")
        /\ Ink(Joined(out)) = Ink(text)
        /\ (\A j \in DOMAIN text : text[j] \in Whitespace) => out = <<>>

\* C27 witness: "a\r\n\r\n b\r\n" gives the two paragraphs "a" and "b".
C27_Witness ==
    /\ applied.fn = "split_into_paragraphs"
    /\ applied.args[1] = <<"a", "\r", "\n", "\r", "\n", " ", "b", "\r", "\n">>
    /\ applied.out = << <<"a">>, <<"b">> >>

\* the configuration names a vendor with an empty credential, or no engine
\* the program knows
NoUsableEngine(config) ==
    \/ config.provider = "baidu" /\ (config.baidu_appid = <<>> \/ config.baidu_key = <<>>)
    \/ config.provider = "youdao" /\
          (config.youdao_app_key = <<>> \/ config.youdao_app_secret = <<>>)
    \/ config.provider \notin {"google", "baidu", "youdao"}

\* C21: while the configuration has no usable engine, whatever the user does
\* (open a document with auto-translate on, translate, refresh, change the
\* language), no worker exists, no signal is queued, the three buttons are
\* enabled, the progress bar is at 0 and no translation is held or shown.
C21_NoEngineNoBatch ==
    NoUsableEngine(window.config) =>
        /\ threads = <<>>
        /\ events = <<>>
        /\ window.current_worker = 0
        /\ window.buttons_enabled
        /\ window.progress_bar = 0
        /\ window.translated_paragraphs = <<>>
        /\ window.right_list = <<>>

\* C21 witness: Baidu without its key, a document is loaded with auto-translate
\* on and the language was changed, so translations were asked for; the
\* translate button can be clicked again.
C21_Witness ==
    /\ window.config.provider = "baidu" /\ window.config.baidu_key = <<>>
    /\ window.original_paragraphs # <<>>
    /\ window.auto_translate
    /\ window.target_code # LANG_ITEMS[1].generic
    /\ ENABLED MainWindow_on_translate_clicked
    /\ threads = <<>>

\* worker w was started and its run-finished notification has not reached
\* on_worker_finished yet
Unfinished(w) ==
    \/ threads[w].pc # "done"
    \/ \E k \in DOMAIN events : events[k].sig = "finished" /\ events[k].worker = w

\* C24 as stated: the translate, refresh and open buttons are disabled whenever
\* some started worker has not delivered its run-finished notification, and
\* enabled when there is no such worker.
C24_ControlsFollowWorkers ==
    window.buttons_enabled <=> (\A w \in DOMAIN threads : ~Unfinished(w))

\* the list worker w hands to on_translate_finished
ResultOf(w) ==
    [k \in DOMAIN threads[w].paragraphs |->
        Translation(threads[w].paragraphs[k], threads[w].target_lang)]

\* C25 as stated: once every worker has finished and every signal has been
\* delivered, a translation the window holds or shows is the result of the
\* batch started last.
C25_LatestResultShown ==
    (threads # <<>> /\ events = <<>> /\ \A w \in DOMAIN threads : ~Unfinished(w)) =>
        /\ window.translated_paragraphs \in {<<>>, ResultOf(Len(threads))}
        /\ window.right_list \in {<<>>, ResultOf(Len(threads))}

\* C26 as stated: a non-empty right list has as many rows as the left list,
\* and each of its rows is a translation of the paragraph in the same row of
\* the left list.
C26_RowsCorrespond ==
    window.right_list # <<>> =>
        /\ Len(window.right_list) = Len(window.left_list)
        /\ \A i \in DOMAIN window.right_list :
              \E target \in ComboCodes :
                 window.right_list[i] = Translation(window.left_list[i], target)

\* C28 as stated: while the dialog is open (no save has completed) and after
\* it was cancelled, the AppConfig of the window is the one the dialog was
\* opened with, and so is the translator the next translation would build.
C28_FailedSaveLeavesConfig ==
    (settings.phase = "open" \/ settings.result = "Rejected") =>
        /\ window.config = settings.opened_with
        /\ build_translator(window.config) = build_translator(settings.opened_with)

\* C29: when no row-changed handler is executing the guard flag is false, also
\* after a handler that raised; one row change makes the handlers change a
\* row of the other list at most once and never nests more than two handlers;
\* and once the handlers have returned after a change to a row both lists
\* have, the two lists have that row as their current row.
C29_SelectionSync ==
    /\ selection.stack = <<>> => ~selection.sync_selecting
    /\ selection.mirrored <= 1
    /\ Len(selection.stack) <= 2
    /\ (/\ selection.stack = <<>>
        /\ 0 <= selection.last.row
        /\ selection.last.row < selection.left_count
        /\ selection.last.row < selection.right_count)
       => (selection.left_row = selection.last.row /\ selection.right_row = selection.last.row)

\* C29 witness: row 1 of the right list was selected, the left list followed,
\* and the handlers have returned with the flag false.
C29_Witness ==
    /\ selection.stack = <<>>
    /\ selection.last = [side |-> "right", row |-> 1]
    /\ selection.mirrored = 1
    /\ selection.left_row = 1 /\ selection.right_row = 1
    /\ ~selection.sync_selecting

====
